---- MODULE Spec2Model ----
(***************************************************************************)
(* Model of src/operations.py: the browser page that loads a series,       *)
(* lets the user select a rectangle of the plot and fits an exponential.   *)
(*                                                                         *)
(* Numbers are fixed-point in half units: the model value v stands for the *)
(* real v/2, so that integer truncation (int()) has something to cut.      *)
(* Every handler runs to completion inside one event-loop callback; the    *)
(* two async handlers are split at their awaits.                           *)
(*                                                                         *)
(* Line 161 of the source reads `[..., x[-1] - x[0], ,min(y)]`; it is      *)
(* modelled as the three-element list it spells out (first y, x span,      *)
(* minimum y).                                                             *)
(***************************************************************************)
EXTENDS Integers, Sequences, FiniteSets, TLC

VARIABLES xList, yList, xLoad, yLoad, range_data, old_range_data,
          result_area, hint_area, graph, dummy_area, tdf_file, pending, last

vars == <<xList, yList, xLoad, yLoad, range_data, old_range_data,
          result_area, hint_area, graph, dummy_area, tdf_file, pending, last>>

(***************************************************************************)
(* Bounds and input catalogues                                             *)
(***************************************************************************)
MaxX == 1
MaxPending == 2

XCoords == 0..MaxX
YCoords == {0, 1}
Rects == {<<x0, x1, y0, y1>> : x0 \in XCoords, x1 \in XCoords,
                               y0 \in YCoords, y1 \in YCoords}
\* the rectangles the plot reports while the ingestion handlers interleave
ViewRects == {<<1, 0, 0, 1>>}

\* the series the ingestion operations can deliver (ingestion order kept,
\* not sorted)
Series == << [x |-> <<-1, 0, 1, 1, 2>>, y |-> <<1, 1, 0, 1, 0>>],
             [x |-> <<0, 1, 2, 1>>,     y |-> <<1, 0, 1, 1>>],
             [x |-> <<2, 1, 0, 0>>,     y |-> <<0, 1, 1, 0>>] >>
LoadIds == 1..Len(Series)
CsvUrlIds == {2}
DummyIds == {1}
\* remote .tdf files; file 0 holds no xy-curve block
UrlFileIds == {0, 2}

\* the optimizer's outcomes: its parameter tau and its status code ier
\* (1: converged, 4: returned with another status, 5: curve_fit raises)
Taus == {1, 2}
Iers == {1, 4, 5}

\* a window attribute is [id, v]: the identity of the object it refers to and
\* its four values; NoAttr is an attribute never set, None the Python None
NoAttr == [id |-> -1, v |-> <<>>]
None == [id |-> -2, v |-> <<>>]
NoRect == <<>>

(***************************************************************************)
(* Helpers                                                                 *)
(***************************************************************************)
\* float(str): the rectangle strings were written by JSON.stringify of a
\* finite number, which float() reads back exactly.
float(s) == s

\* int(v): truncation toward zero of the real v/2
int(v) == IF v >= 0 THEN v \div 2 ELSE -((-v) \div 2)

ensure_normal_range_noyswap(x0, x1, y0, y1) ==
    IF x0 > x1 THEN <<x1, x0, y0, y1>> ELSE <<x0, x1, y0, y1>>

ensure_normal_range(x0, x1, y0, y1) ==
    LET a == IF x0 > x1 THEN <<x1, x0>> ELSE <<x0, x1>>
        b == IF y0 > y1 THEN <<y1, y0>> ELSE <<y0, y1>>
    IN  <<a[1], a[2], b[1], b[2]>>

\* the selection loop shared by both triggers: `continue` on a sample left
\* or right of the rectangle, then on one below or above it
RECURSIVE select(_, _, _, _)
select(xs, ys, r, i) ==
    IF i > Len(xs) \/ i > Len(ys) THEN <<>>
    ELSE LET x == xs[i]
             y == ys[i]
             rest == select(xs, ys, r, i + 1)
         IN  IF (x < r[1]) \/ (x > r[2]) THEN rest
             ELSE IF (y < r[3]) \/ (y > r[4]) THEN rest
             ELSE <<<<x, y>>>> \o rest

RECURSIVE min(_)
min(s) == IF Len(s) = 1 THEN s[1]
          ELSE LET m == min(Tail(s)) IN IF s[1] < m THEN s[1] ELSE m

Xs(sel) == [i \in 1..Len(sel) |-> sel[i][1]]
Ys(sel) == [i \in 1..Len(sel) |-> sel[i][2]]

\* number of parameters fit_function indexes: p[0], p[1], p[2]
fit_function_arity == 3

p0_fit_curve(sel) == <<sel[1][2], sel[Len(sel)][1] - sel[1][1]>>
p0_fake_fit_curve(sel) ==
    <<sel[1][2], sel[Len(sel)][1] - sel[1][1], min(Ys(sel))>>

\* curve_fit raises when the model function cannot take len(p0) parameters
\* (IndexError in fit_function), when there are fewer points than
\* parameters (leastsq: improper input), or when ier is not in 1..4
curve_fit_raises(sel, p0, ier) ==
    \/ Len(p0) < fit_function_arity
    \/ Len(sel) < Len(p0)
    \/ ier \notin 1..4

\* hint-area style.display after a fit: "" (shown) unless ier = 1
hint_after_fit_inverted(ier) == IF ier # 1 THEN "none" ELSE ""
hint_after_fit(ier) == IF ier # 1 THEN "" ELSE "none"

\* the three result areas, "%.4f" of tau, tau*ln(2) and 1/tau, in 1e-4 units
result_areas(tau) ==
    <<tau * 5000, (tau * 6931 + 1) \div 2, (40000 + tau) \div (2 * tau)>>

\* operator.eq on the two window attributes: JS arrays compare by identity
operator_eq_never(a, b) == FALSE
operator_eq(a, b) == a.id = b.id

\* lines 139-142: the four bounds agree after int()
ranges_agree_exact(o, f) ==
    /\ o[1] = f[1] /\ o[2] = f[2] /\ o[3] = f[3] /\ o[4] = f[4]
ranges_agree(o, f) ==
    /\ int(o[1]) = int(f[1])
    /\ int(o[2]) = int(f[2])
    /\ int(o[3]) = int(f[3])
    /\ int(o[4]) = int(f[4])

\* the notice each trigger raises when its selection is empty
empty_notice_fit_curve == "no_data"
empty_notice_fake_alert == "no_data"
empty_notice_fake_fit_curve == "none"

\* the value line 144 stores as window.old_range_data (a Python list: a new
\* object, identity 0, never identical to a JS array)
stored_by_fake_keep(old, f) == old
stored_by_fake(old, f) == [id |-> 0, v |-> f]

\* the value line 192 stores
stored_by_fit_keep(old, rd) == old
stored_by_fit(old, rd) == rd

\* np.genfromtxt(..., delimiter="|", skip_header=1, unpack=True): the rows
\* after the header, transposed into the two columns
CsvRows(d) == [i \in 1..Len(Series[d].x) |-> <<Series[d].x[i], Series[d].y[i]>>]
genfromtxt(rows) == <<[i \in 1..Len(rows) |-> rows[i][1]],
                      [i \in 1..Len(rows) |-> rows[i][2]]>>

\* the blocks of a .tdf file: a header block, then the xy-curve block of the
\* series it holds (file 0 holds none)
TdfBlocks(k) ==
    IF k = 0 THEN << [xy |-> FALSE, x |-> <<>>, y |-> <<>>] >>
    ELSE << [xy |-> FALSE, x |-> <<>>, y |-> <<>>],
            [xy |-> TRUE, x |-> Series[k].x, y |-> Series[k].y] >>

\* read_tdf_from_file: the last xy-curve block sets the two globals; with no
\* such block the return statement raises (x_label is unbound)
RECURSIVE read_blocks(_, _, _)
read_blocks(blocks, i, acc) ==
    IF i > Len(blocks) THEN acc
    ELSE read_blocks(blocks, i + 1,
                     IF blocks[i].xy
                     THEN [ok |-> TRUE, x |-> blocks[i].x, y |-> blocks[i].y]
                     ELSE acc)

read_tdf_from_file_xx(blocks, curx, cury) ==
    LET res == read_blocks(blocks, 1, [ok |-> FALSE, x |-> curx, y |-> cury])
    IN  [res EXCEPT !.y = IF res.ok THEN Tail(res.x) ELSE res.y]

read_tdf_from_file(blocks, curx, cury) ==
    read_blocks(blocks, 1, [ok |-> FALSE, x |-> curx, y |-> cury])

Last(op, outcome, notice, sel, p0, ier) ==
    [op |-> op, outcome |-> outcome, notice |-> notice,
     sel |-> sel, p0 |-> p0, ier |-> ier]

\* what my_plot embeds: the series, whether the fitted line is overlaid,
\* whether the axes are clamped to the selection, which titles are used
my_plot(load, line, range, labels) ==
    [load |-> load, line |-> line, range |-> range, labels |-> labels]

(***************************************************************************)
(* Initial state: page loaded, nothing plotted, no selection               *)
(***************************************************************************)
Init ==
    /\ xList = <<>> /\ yList = <<>>
    /\ xLoad = 0 /\ yLoad = 0
    /\ range_data = NoAttr
    /\ old_range_data = NoAttr
    /\ result_area = <<>>
    /\ hint_area \in {"", "none"}
    /\ graph = my_plot(0, "none", "auto", "none")
    /\ dummy_area = 0
    /\ tdf_file = -1
    /\ pending = {}
    /\ last = Last("init", "none", "none", <<>>, <<>>, 0)

ctl == <<range_data, old_range_data, result_area, hint_area>>
data == <<xList, yList, xLoad, yLoad>>
async == <<tdf_file, pending>>

(***************************************************************************)
(* The plot widget: RangesUpdate stores a new JS array in window.range_data *)
(***************************************************************************)
FreshId == IF old_range_data.id = 1 THEN 2 ELSE 1

callback_upadte_range(r) ==
    /\ graph.load # 0
    /\ range_data' = [id |-> FreshId, v |-> r]
    /\ last' = Last("RangesUpdate", "none", "none", <<>>, <<>>, 0)
    /\ UNCHANGED <<data, old_range_data, result_area, hint_area,
                   graph, dummy_area, async>>

(***************************************************************************)
(* fit_curve: the manual trigger                                           *)
(***************************************************************************)
fit_curve(tau, ier) ==
    IF range_data = NoAttr
    THEN /\ last' = Last("fit_curve", "need_selection", "select_first",
                         <<>>, <<>>, 0)
         /\ UNCHANGED <<data, ctl, graph, dummy_area, async>>
    ELSE
    LET old == IF old_range_data = NoAttr THEN None ELSE old_range_data
    IN
    IF operator_eq(old, range_data)
    THEN /\ old_range_data' = old
         /\ last' = Last("fit_curve", "unchanged", "none", <<>>, <<>>, 0)
         /\ UNCHANGED <<data, range_data, result_area, hint_area,
                        graph, dummy_area, async>>
    ELSE
    LET v == range_data.v
        r == ensure_normal_range(float(v[1]), float(v[2]), float(v[3]), float(v[4]))
        sel == select(xList, yList, r, 1)
    IN
    /\ old_range_data' = stored_by_fit(old, range_data)
    /\ UNCHANGED <<data, range_data, dummy_area, async>>
    /\ IF Len(sel) = 0
       THEN /\ last' = Last("fit_curve", "empty", empty_notice_fit_curve,
                            sel, <<>>, 0)
            /\ UNCHANGED <<result_area, hint_area, graph>>
       ELSE LET p0 == p0_fit_curve(sel) IN
            IF curve_fit_raises(sel, p0, ier)
            THEN /\ last' = Last("fit_curve", "fit_raised", "none", sel, p0, ier)
                 /\ UNCHANGED <<result_area, hint_area, graph>>
            ELSE /\ hint_area' = hint_after_fit(ier)
                 /\ result_area' = result_areas(tau)
                 /\ graph' = my_plot(xLoad, "fit", "selection", "default")
                 /\ last' = Last("fit_curve", "published", "none", sel, p0, ier)

(***************************************************************************)
(* fake_fit_curve: the reset trigger                                       *)
(***************************************************************************)
fake_fit_curve(tau, ier) ==
    IF range_data = NoAttr
    THEN /\ last' = Last("fake_fit_curve", "need_selection", "select_first",
                         <<>>, <<>>, 0)
         /\ UNCHANGED <<data, ctl, graph, dummy_area, async>>
    ELSE IF old_range_data = NoAttr
    THEN /\ last' = Last("fake_fit_curve", "no_old", "none", <<>>, <<>>, 0)
         /\ UNCHANGED <<data, ctl, graph, dummy_area, async>>
    ELSE IF old_range_data = None
    THEN \* None[0]: TypeError
         /\ last' = Last("fake_fit_curve", "raised", "none", <<>>, <<>>, 0)
         /\ UNCHANGED <<data, ctl, graph, dummy_area, async>>
    ELSE
    LET o == old_range_data.v
        x0 == float(o[1])
        x1 == float(o[2])
        y0 == float(o[3])
        y1 == float(o[4])
        f == <<xList[1], xList[Len(xList)], yList[1], yList[Len(yList)]>>
    IN
    IF ranges_agree(<<x0, x1, y0, y1>>, f)
    THEN /\ last' = Last("fake_fit_curve", "unchanged", "none", <<>>, <<>>, 0)
         /\ UNCHANGED <<data, ctl, graph, dummy_area, async>>
    ELSE
    LET r == ensure_normal_range(x0, x1, y0, y1)
        sel == select(xList, yList, r, 1)
    IN
    /\ old_range_data' = stored_by_fake(old_range_data, f)
    /\ UNCHANGED <<data, range_data, dummy_area, async>>
    /\ IF Len(sel) = 0
       THEN /\ last' = Last("fake_fit_curve", "empty", empty_notice_fake_fit_curve,
                            sel, <<>>, 0)
            /\ UNCHANGED <<result_area, hint_area, graph>>
       ELSE LET p0 == p0_fake_fit_curve(sel) IN
            IF curve_fit_raises(sel, p0, ier)
            THEN /\ last' = Last("fake_fit_curve", "fit_raised", "none", sel, p0, ier)
                 /\ UNCHANGED <<result_area, hint_area, graph>>
            ELSE /\ hint_area' = hint_after_fit(ier)
                 /\ result_area' = result_areas(tau)
                 /\ graph' = my_plot(xLoad, "fit", "auto", "default")
                 /\ last' = Last("fake_fit_curve", "published", "none", sel, p0, ier)

(***************************************************************************)
(* Ingestion                                                               *)
(***************************************************************************)
handle_csv_stringio(d) ==
    LET cols == genfromtxt(CsvRows(d)) IN
    /\ xList' = cols[1] /\ yList' = cols[2]
    /\ xLoad' = d /\ yLoad' = d
    /\ graph' = my_plot(d, "none", "auto", "default")
    /\ last' = Last("handle_csv_stringio", "loaded", "none", <<>>, <<>>, 0)
    /\ UNCHANGED <<ctl, dummy_area, async>>

draw_graph_of_dummy_data(d) ==
    /\ yList' = Series[d].y
    /\ xList' = Series[d].x
    /\ xLoad' = d /\ yLoad' = d
    /\ dummy_area' = d
    /\ graph' = my_plot(d, "none", "auto", "default")
    /\ last' = Last("draw_graph_of_dummy_data", "loaded", "none", <<>>, <<>>, 0)
    /\ UNCHANGED <<ctl, async>>

\* lines 313-317 and 340-344: write the scratch file, read it back, plot
load_tdf(op, k) ==
    LET res == read_tdf_from_file(TdfBlocks(k), xList, yList) IN
    /\ tdf_file' = k
    /\ xList' = res.x /\ yList' = res.y
    /\ xLoad' = IF res.ok THEN k ELSE xLoad
    /\ yLoad' = IF res.ok THEN k ELSE yLoad
    /\ graph' = IF res.ok THEN my_plot(k, "none", "auto", "tdf") ELSE graph
    /\ last' = Last(op, IF res.ok THEN "loaded" ELSE "raised", "none",
                    <<>>, <<>>, 0)

Coroutine(h, pc, csv, files) == [h |-> h, pc |-> pc, csv |-> csv, files |-> files]

\* the selections of the file input: none, one file, two files
FileLists == {<<>>, <<3>>, <<1, 3>>}

\* draw_graph_of_local_file up to its first await
draw_graph_of_local_file(files, csv) ==
    /\ Cardinality(pending) < MaxPending
    /\ pending' = IF Len(files) = 0 THEN pending
                  ELSE pending \cup {Coroutine("local", "file", csv, files)}
    /\ last' = Last("draw_graph_of_local_file",
                    IF Len(files) = 0 THEN "no_file" ELSE "await", "none",
                    <<>>, <<>>, 0)
    /\ UNCHANGED <<data, ctl, graph, dummy_area, tdf_file>>

\* the continuation after `await f.text()` or `await f.arrayBuffer()`, up to
\* the await of the next file or the end of the loop
local_file_resume(c) ==
    /\ c \in pending /\ c.h = "local"
    /\ LET k == Head(c.files)
           more == Tail(c.files)
           cont == IF Len(more) = 0 THEN {} ELSE {[c EXCEPT !.files = more]}
       IN
       IF c.csv
       THEN LET cols == genfromtxt(CsvRows(k)) IN
            /\ xList' = cols[1] /\ yList' = cols[2]
            /\ xLoad' = k /\ yLoad' = k
            /\ graph' = my_plot(k, "none", "auto", "default")
            /\ last' = Last("draw_graph_of_local_file", "loaded", "none",
                            <<>>, <<>>, 0)
            /\ pending' = (pending \ {c}) \cup cont
            /\ UNCHANGED tdf_file
       ELSE /\ load_tdf("draw_graph_of_local_file", k)
            /\ pending' = (pending \ {c}) \cup cont
    /\ UNCHANGED <<ctl, dummy_area>>

\* draw_graph_of_url up to its first await; ext is the url's extension
draw_graph_of_url(ext, k) ==
    /\ Cardinality(pending) < MaxPending
    /\ IF ext = ".csv"
       THEN LET cols == genfromtxt(CsvRows(k)) IN
            /\ k \in CsvUrlIds
            /\ xList' = cols[1] /\ yList' = cols[2]
            /\ xLoad' = k /\ yLoad' = k
            /\ graph' = my_plot(k, "none", "auto", "default")
            /\ last' = Last("draw_graph_of_url", "loaded", "none", <<>>, <<>>, 0)
            /\ UNCHANGED pending
       ELSE IF ext = ".tdf"
       THEN /\ k \in UrlFileIds
            /\ pending' = pending \cup {Coroutine("url", "fetch", FALSE, <<k>>)}
            /\ last' = Last("draw_graph_of_url", "await", "none", <<>>, <<>>, 0)
            /\ UNCHANGED <<data, graph>>
       ELSE /\ k = 0
            /\ last' = Last("draw_graph_of_url",
                            IF ext = "" THEN "no_url" ELSE "bad_extension",
                            IF ext = "" THEN "none" ELSE "bad_extension",
                            <<>>, <<>>, 0)
            /\ UNCHANGED <<data, graph, pending>>
    /\ UNCHANGED <<ctl, dummy_area, tdf_file>>

\* the continuation after `await pyfetch(urlStr)`
url_fetch_resume(c, ok) ==
    /\ c \in pending /\ c.h = "url" /\ c.pc = "fetch"
    /\ pending' = (pending \ {c}) \cup
                  (IF ok THEN {[c EXCEPT !.pc = "bytes"]} ELSE {})
    /\ last' = Last("draw_graph_of_url", IF ok THEN "await" ELSE "http_error",
                    "none", <<>>, <<>>, 0)
    /\ UNCHANGED <<data, ctl, graph, dummy_area, tdf_file>>

\* the continuation after `await resp.bytes()`
url_bytes_resume(c) ==
    /\ c \in pending /\ c.h = "url" /\ c.pc = "bytes"
    /\ load_tdf("draw_graph_of_url", Head(c.files))
    /\ pending' = pending \ {c}
    /\ UNCHANGED <<ctl, dummy_area>>

(***************************************************************************)
(* Specifications                                                          *)
(***************************************************************************)
\* the whole page
Next ==
    \/ \E r \in ViewRects : callback_upadte_range(r)
    \/ \E tau \in {1}, ier \in {1} : fit_curve(tau, ier)
    \/ \E tau \in {1}, ier \in {1} : fake_fit_curve(tau, ier)
    \/ \E d \in DummyIds : draw_graph_of_dummy_data(d)
    \/ \E files \in FileLists, csv \in BOOLEAN : draw_graph_of_local_file(files, csv)
    \/ \E c \in pending : local_file_resume(c)
    \/ \E ext \in {"", ".csv", ".tdf", ".txt"}, k \in {0} \cup LoadIds :
          draw_graph_of_url(ext, k)
    \/ \E c \in pending, ok \in BOOLEAN : url_fetch_resume(c, ok)
    \/ \E c \in pending : url_bytes_resume(c)

Spec == Init /\ [][Next]_vars

\* the fit controller over every selection rectangle, the series arriving
\* as CSV text
NextSelect ==
    \/ \E r \in Rects : callback_upadte_range(r)
    \/ \E tau \in Taus, ier \in Iers : fit_curve(tau, ier)
    \/ \E tau \in Taus, ier \in Iers : fake_fit_curve(tau, ier)
    \/ \E d \in LoadIds : handle_csv_stringio(d)

SpecSelect == Init /\ [][NextSelect]_vars

(***************************************************************************)
(* Properties                                                              *)
(***************************************************************************)
Abs(v) == IF v < 0 THEN -v ELSE v
Lo(a, b) == IF a <= b THEN a ELSE b
Hi(a, b) == IF a <= b THEN b ELSE a

\* the samples of the loaded series inside the rectangle r (corners in any
\* order, edges included), in series order
Inside(p, r) ==
    /\ Lo(r[1], r[2]) <= p[1] /\ p[1] <= Hi(r[1], r[2])
    /\ Lo(r[3], r[4]) <= p[2] /\ p[2] <= Hi(r[3], r[4])
SamplesInside(r) ==
    LET pairs == [i \in 1..Len(xList) |-> <<xList[i], yList[i]>>]
        test(p) == Inside(p, r)
    IN  SelectSeq(pairs, test)

\* the integer part of the real v/2
Truncated(v) == CHOOSE n \in -Abs(v)..Abs(v) :
                    /\ n * v >= 0
                    /\ 2 * Abs(n) <= Abs(v)
                    /\ Abs(v) < 2 * Abs(n) + 2
ViewBounds == <<xList[1], xList[Len(xList)], yList[1], yList[Len(yList)]>>

Triggers == {"fit_curve", "fake_fit_curve"}
IngestionOps == {"handle_csv_stringio", "draw_graph_of_dummy_data",
                 "draw_graph_of_local_file", "draw_graph_of_url"}
Filtered == {"empty", "fit_raised", "published"}
\* the status code the handlers take for a converged fit
Success == 1

\* C1 as stated: an invocation of either trigger whose filtered point set is
\* empty leaves the stored previous rectangle and the published values as
\* they were.
C1_EmptyLeavesStoredState ==
    [][last'.outcome = "empty" =>
          /\ old_range_data' = old_range_data
          /\ result_area' = result_area]_vars

\* C1 amended: an invocation of either trigger whose filtered point set is
\* empty leaves the published values, the warning and the plot as they were,
\* but has already replaced the stored previous rectangle: by the observed
\* rectangle (manual trigger), by the first/last sample bounds (reset trigger).
C1_EmptyKeepsPublishedStoresRect ==
    [][last'.outcome = "empty" =>
          /\ result_area' = result_area
          /\ hint_area' = hint_area
          /\ graph' = graph
          /\ old_range_data'.v = IF last'.op = "fit_curve"
                                 THEN range_data.v ELSE ViewBounds]_vars

C1_Witness ==
    /\ last.op = "fit_curve" /\ last.outcome = "empty"
    /\ result_area # <<>>
    /\ old_range_data = range_data

\* C2: a fit_curve invocation that directly follows another fit_curve
\* invocation (same observed rectangle, no event in between) does no
\* filter/fit work and changes neither the stored previous rectangle nor the
\* published values nor the plot.
C2_SecondManualIsNoOp ==
    [][(last.op = "fit_curve" /\ last'.op = "fit_curve" /\ range_data # NoAttr) =>
          /\ last'.outcome = "unchanged"
          /\ last'.sel = <<>> /\ last'.p0 = <<>>
          /\ UNCHANGED <<old_range_data, range_data, result_area,
                         hint_area, graph>>]_vars

C2_Witness ==
    /\ last.op = "fit_curve" /\ last.outcome = "unchanged"
    /\ result_area # <<>>

\* C3: a fake_fit_curve invocation for which the stored previous rectangle
\* and the newly observed bounds agree on all four values after integer
\* truncation is a no-op; a fake_fit_curve invocation that directly follows
\* another one never filters or fits again.
C3_ResetTruncatedNoOp ==
    [][(last'.op = "fake_fit_curve" /\ range_data # NoAttr
                                     /\ old_range_data # NoAttr) =>
          /\ (\A i \in 1..4 : Truncated(old_range_data.v[i]) = Truncated(ViewBounds[i]))
                => /\ last'.outcome = "unchanged"
                   /\ last'.sel = <<>> /\ last'.p0 = <<>>
                   /\ UNCHANGED <<old_range_data, range_data, result_area,
                                  hint_area, graph>>
          /\ last.op = "fake_fit_curve" => last'.outcome = "unchanged"]_vars

C3_Witness ==
    /\ last.op = "fake_fit_curve" /\ last.outcome = "unchanged"
    /\ old_range_data.v # ViewBounds
    /\ old_range_data.id # 0

\* C4: on a changed, non-empty selection fit_curve passes a two-value initial
\* guess (first y, x span) to a model function of exactly two parameters, so
\* the fit does not fail on the parameter count and, the optimizer returning,
\* the invocation publishes.
C4_ManualTwoParameterFit ==
    (last.op = "fit_curve" /\ last.outcome \in {"fit_raised", "published"}) =>
        /\ last.p0 = <<last.sel[1][2], last.sel[Len(last.sel)][1] - last.sel[1][1]>>
        /\ Len(last.p0) = fit_function_arity
        /\ (Len(last.sel) >= 2 /\ last.ier \in 1..4) => last.outcome = "published"

C7_EmptyNoticeAsymmetry ==
    [][last'.outcome = "empty" =>
          /\ (last'.notice = "no_data") <=> (last'.op = "fit_curve")
          /\ last'.op = "fake_fit_curve" => last'.notice = "none"
          /\ last'.p0 = <<>> /\ last'.ier = 0
          /\ result_area' = result_area
          /\ graph' = graph]_vars

C7_Witness ==
    /\ last.op = "fake_fit_curve" /\ last.outcome = "empty"
    /\ last.notice = "none"

\* C8: the points either trigger filters are exactly the samples inside the
\* rectangle it filters with (range_data for fit_curve, the stored previous
\* rectangle for fake_fit_curve), corners in any order, edges included, in
\* series order; the empty sequence when there is none.
C8_SelectionByRectangle ==
    [][last'.outcome \in Filtered =>
          last'.sel = SamplesInside(IF last'.op = "fit_curve"
                                    THEN range_data.v
                                    ELSE old_range_data.v)]_vars

C8_Witness ==
    /\ last.op = "fit_curve" /\ last.outcome \in Filtered
    /\ range_data.v[3] > range_data.v[4]
    /\ range_data.v[1] > range_data.v[2]
    /\ Len(last.sel) > 0 /\ Len(last.sel) < Len(xList)
    /\ \E i \in 1..Len(last.sel) : last.sel[i][1] = range_data.v[1]

\* C9: in every state, so whenever a trigger runs, xList and yList come from
\* the same completed load and have equal length.
C9_SeriesConsistent ==
    /\ xLoad = yLoad
    /\ Len(xList) = Len(yList)
    /\ xLoad # 0 => (xList = Series[xLoad].x /\ yList = Series[yLoad].y)

C9_Witness ==
    /\ last.op \in Triggers
    /\ tdf_file > 0
    /\ \E c \in pending : c.h = "local" /\ ~c.csv
    /\ \E c \in pending : c.h = "url" /\ c.pc = "bytes"

\* C10: no ingestion step changes the stored previous rectangle, the observed
\* selection or the published values; a fit_curve invocation that finds
\* window.range_data still the stored previous rectangle is skipped and
\* leaves the published values as they were, also after a new load.
C10_IngestionKeepsSelectionState ==
    [][/\ last'.op \in IngestionOps =>
             UNCHANGED <<old_range_data, range_data, result_area>>
       /\ (last'.op = "fit_curve" /\ range_data # NoAttr
                                  /\ old_range_data = range_data) =>
             /\ last'.outcome = "unchanged"
             /\ UNCHANGED <<old_range_data, range_data, result_area,
                            hint_area, graph>>]_vars

C10_Witness ==
    /\ last.op = "fit_curve" /\ last.outcome = "unchanged"
    /\ result_area # <<>>
    /\ graph.line = "none"

====
